---- MODULE Spec2Model ----
(***************************************************************************)
(* Pipeline orchestration core of the RAG / Agentic RAG / Text-to-SQL      *)
(* visualizer (App component, latest revision: src/unnamed/part_004 from   *)
(* line 673 on, and src/services/geminiService.ts).                        *)
(*                                                                         *)
(* React state is modelled by one variable per useState / useRef cell.     *)
(* Every invocation of handleStep / handleAgentStep / handleSqlStep is a   *)
(* "run": a record holding the handler's local variables, its program      *)
(* position between two awaits, and the values of the state cells its      *)
(* closure captured when it was invoked (the handler and the transition    *)
(* function it calls are closures of one render, so query, chunks,         *)
(* retrievedChunks, fileContent and fileName read inside them are the      *)
(* values of that render; functional updaters setX(prev => ...) and refs   *)
(* read the live cell).  One action is one synchronous segment of code     *)
(* between two awaits (JavaScript runs such a segment, and the microtasks  *)
(* it resolves, without interleaving).                                     *)
(*                                                                         *)
(* Texts are sequences of one-character strings.  The content of a         *)
(* document is held in the state by its key in DocText, and the text of a  *)
(* chunk, which is a trimmed window of a document, as that window          *)
(* [doc, from, to]; Text gives its characters.  Scores are in hundredths   *)
(* (1.0 is 100).                                                           *)
(***************************************************************************)
EXTENDS Integers, Sequences, FiniteSets, TLC

(***************************************************************************)
(* Bounds of the model.                                                    *)
(***************************************************************************)
\* runs that may be in flight at the same time
MaxRuns == 2
\* user commands (clicks, edits, files chosen) in one behaviour
MaxCmds == 3
\* outcomes of the Math.random() draws of one retrieval (see JitterVectors)
JitterPatterns == 2

(***************************************************************************)
(* Program constants.                                                      *)
(***************************************************************************)
chunkSize == 250
overlap == 50
minStride == 20
minChunkLen == 5
maxChunks == 100
topK == 5
keywordMinLen == 2
keywordScore == 100
ruleBonus == 50
jitterRange == 10

SAMPLE_DOC ==
   <<
      "T", "h", "e", " ", "F", "u", "t", "u", "r", "e", " ", "o", "f", " ", "A", "I", " ", "A", "r", "c",
      "h", "i", "t", "e", "c", "t", "u", "r", "e", " ", "G", "u", "i", "d", "e", "l", "i", "n", "e", "s",
      ".", "\n",
      "R", "u", "l", "e", " ", "1", ":", " ", "A", "l", "l", " ", "d", "o", "c", "u", "m", "e", "n", "t",
      "s", " ", "m", "u", "s", "t", " ", "b", "e", " ", "s", "p", "l", "i", "t", " ", "i", "n", "t", "o",
      " ", "c", "h", "u", "n", "k", "s", " ", "o", "f", " ", "5", "1", "2", " ", "t", "o", "k", "e", "n",
      "s", " ", "o", "r", " ", "l", "e", "s", "s", " ", "t", "o", " ", "e", "n", "s", "u", "r", "e", " ",
      "c", "o", "n", "t", "e", "x", "t", " ", "w", "i", "n", "d", "o", "w", " ", "c", "o", "m", "p", "l",
      "i", "a", "n", "c", "e", ".", "\n",
      "R", "u", "l", "e", " ", "2", ":", " ", "S", "e", "m", "a", "n", "t", "i", "c", " ", "e", "m", "b",
      "e", "d", "d", "i", "n", "g", "s", " ", "m", "u", "s", "t", " ", "b", "e", " ", "g", "e", "n", "e",
      "r", "a", "t", "e", "d", " ", "u", "s", "i", "n", "g", " ", "h", "i", "g", "h", "-", "d", "i", "m",
      "e", "n", "s", "i", "o", "n", "a", "l", "i", "t", "y", " ", "v", "e", "c", "t", "o", "r", " ", "m",
      "o", "d", "e", "l", "s", " ", "(", "7", "6", "8", "+", " ", "d", "i", "m", "s", ")", ".", "\n",
      "R", "u", "l", "e", " ", "3", ":", " ", "V", "e", "c", "t", "o", "r", " ", "d", "a", "t", "a", "b",
      "a", "s", "e", "s", " ", "l", "i", "k", "e", " ", "P", "i", "n", "e", "c", "o", "n", "e", " ", "o",
      "r", " ", "C", "h", "r", "o", "m", "a", " ", "s", "h", "o", "u", "l", "d", " ", "b", "e", " ", "u",
      "s", "e", "d", " ", "f", "o", "r", " ", "i", "n", "d", "e", "x", "i", "n", "g", " ", "a", "n", "d",
      " ", "f", "a", "s", "t", " ", "m", "e", "t", "a", "d", "a", "t", "a", "-", "f", "i", "l", "t", "e",
      "r", "e", "d", " ", "r", "e", "t", "r", "i", "e", "v", "a", "l", ".", "\n",
      "R", "u", "l", "e", " ", "4", ":", " ", "G", "r", "o", "u", "n", "d", "i", "n", "g", " ", "i", "s",
      " ", "m", "a", "n", "d", "a", "t", "o", "r", "y", ".", " ", "E", "v", "e", "r", "y", " ", "A", "I",
      " ", "r", "e", "s", "p", "o", "n", "s", "e", " ", "m", "u", "s", "t", " ", "c", "i", "t", "e", " ",
      "t", "h", "e", " ", "s", "p", "e", "c", "i", "f", "i", "c", " ", "s", "o", "u", "r", "c", "e", " ",
      "c", "h", "u", "n", "k", " ", "t", "o", " ", "p", "r", "e", "v", "e", "n", "t", " ", "h", "a", "l",
      "l", "u", "c", "i", "n", "a", "t", "i", "o", "n", "s", ".", "\n",
      "R", "u", "l", "e", " ", "5", ":", " ", "H", "y", "b", "r", "i", "d", " ", "s", "e", "a", "r", "c",
      "h", " ", "i", "s", " ", "r", "e", "c", "o", "m", "m", "e", "n", "d", "e", "d", ".", " ", "U", "s",
      "e", " ", "a", " ", "c", "o", "m", "b", "i", "n", "a", "t", "i", "o", "n", " ", "o", "f", " ", "B",
      "M", "2", "5", " ", "a", "n", "d", " ", "V", "e", "c", "t", "o", "r", " ", "s", "e", "a", "r", "c",
      "h", " ", "f", "o", "r", " ", "t", "h", "e", " ", "b", "e", "s", "t", " ", "r", "e", "s", "u", "l",
      "t", "s", ".", "\n",
      "R", "u", "l", "e", " ", "6", ":", " ", "P", "r", "i", "v", "a", "c", "y", " ", "f", "i", "r", "s",
      "t", ".", " ", "E", "n", "s", "u", "r", "e", " ", "a", "l", "l", " ", "s", "e", "n", "s", "i", "t",
      "i", "v", "e", " ", "d", "a", "t", "a", " ", "i", "s", " ", "r", "e", "d", "a", "c", "t", "e", "d",
      " ", "b", "e", "f", "o", "r", "e", " ", "c", "h", "u", "n", "k", "i", "n", "g", " ", "i", "n", "t",
      "o", " ", "t", "h", "e", " ", "s", "h", "a", "r", "e", "d", " ", "v", "e", "c", "t", "o", "r", " ",
      "s", "t", "o", "r", "e", ".", "\n",
      "R", "u", "l", "e", " ", "7", ":", " ", "R", "e", "a", "l", "-", "t", "i", "m", "e", " ", "u", "p",
      "d", "a", "t", "e", "s", ".", " ", "T", "h", "e", " ", "v", "e", "c", "t", "o", "r", " ", "i", "n",
      "d", "e", "x", " ", "s", "h", "o", "u", "l", "d", " ", "b", "e", " ", "r", "e", "f", "r", "e", "s",
      "h", "e", "d", " ", "e", "v", "e", "r", "y", " ", "2", "4", " ", "h", "o", "u", "r", "s", " ", "t",
      "o", " ", "i", "n", "c", "l", "u", "d", "e", " ", "t", "h", "e", " ", "l", "a", "t", "e", "s", "t",
      " ", "c", "o", "r", "p", "o", "r", "a", "t", "e", " ", "r", "e", "p", "o", "r", "t", "s", "."
   >>

(***************************************************************************)
(* Strings.                                                                *)
(***************************************************************************)
Min(a, b) == IF a <= b THEN a ELSE b
Max(a, b) == IF a >= b THEN a ELSE b

UpperChars == <<"A","B","C","D","E","F","G","H","I","J","K","L","M",
                "N","O","P","Q","R","S","T","U","V","W","X","Y","Z">>
LowerChars == <<"a","b","c","d","e","f","g","h","i","j","k","l","m",
                "n","o","p","q","r","s","t","u","v","w","x","y","z">>
DigitChars == {"0","1","2","3","4","5","6","7","8","9"}

\* String.prototype.toLowerCase, one character
LowerChar(c) ==
   IF \E i \in 1..26 : UpperChars[i] = c
      THEN LowerChars[CHOOSE i \in 1..26 : UpperChars[i] = c]
      ELSE c

\* String.prototype.toLowerCase
toLowerCase(s) == [i \in 1..Len(s) |-> LowerChar(s[i])]

\* the characters String.prototype.trim removes
IsSpace(c) == c \in {" ", "\n", "\t", "\r"}

\* the first position in lo..hi of s that holds no white space (hi + 1 if none)
RECURSIVE TrimFrom(_, _, _)
TrimFrom(s, lo, hi) ==
   IF lo > hi \/ ~IsSpace(s[lo]) THEN lo ELSE TrimFrom(s, lo + 1, hi)

\* the last position in lo..hi of s that holds no white space (lo - 1 if none)
RECURSIVE TrimTo(_, _, _)
TrimTo(s, lo, hi) ==
   IF hi < lo \/ ~IsSpace(s[hi]) THEN hi ELSE TrimTo(s, lo, hi - 1)

\* fault variant: the text is used as typed (query || fallback, no trim)
trim_asTyped(s) == s

\* String.prototype.trim
trim(s) == SubSeq(s, TrimFrom(s, 1, Len(s)), TrimTo(s, 1, Len(s)))

\* String.prototype.includes
includes(s, sub) ==
   \E i \in 0..(Len(s) - Len(sub)) : SubSeq(s, i + 1, i + Len(sub)) = sub

\* the class \w of a regular expression
IsWordChar(c) ==
   \/ c \in DigitChars
   \/ c = "_"
   \/ \E i \in 1..26 : UpperChars[i] = c \/ LowerChars[i] = c

\* q.split(/\W+/).filter(k => k.length > 2): the maximal runs of word
\* characters of q, in order, that are longer than two characters (the empty
\* strings split yields at the ends of q are removed by the filter)
RECURSIVE WordsFrom(_, _)
WordsFrom(q, i) ==
   IF i > Len(q) THEN <<>>
   ELSE IF ~IsWordChar(q[i]) THEN WordsFrom(q, i + 1)
   ELSE LET ends == {j \in i..Len(q) : j = Len(q) \/ ~IsWordChar(q[j + 1])}
            e == CHOOSE j \in ends : \A k \in ends : j <= k
        IN  <<SubSeq(q, i, e)>> \o WordsFrom(q, e + 1)

Keywords(q) == SelectSeq(WordsFrom(q, 1), LAMBDA k : Len(k) > keywordMinLen)

(***************************************************************************)
(* Documents.                                                              *)
(***************************************************************************)
\* the texts of the model by key: no content, the built-in sample, and the
\* contents of the files the user uploads: a one-chunk text, a text shorter
\* than the chunker's minimum chunk length, the first 450 characters of the
\* sample (three windows, the last inside the second), the sample twice
\* (more chunks than the scorer returns), a text whose second window holds
\* four characters between two stretches of spaces, and a text of 101
\* windows (more than the chunker emits; it is chunked from its 97th window
\* on only)
DocText(doc) ==
   CASE doc = "SAMPLE_DOC" -> SAMPLE_DOC
     [] doc = "notes" -> <<"R", "u", "l", "e", " ", "4", ":", " ", "c", "i", "t", "e",
                           " ", "s", "o", "u", "r", "c", "e", "s", ".", "\n">>
     [] doc = "tiny" -> <<"h", "i">>
     [] doc = "head450" -> SubSeq(SAMPLE_DOC, 1, 450)
     [] doc = "twice" -> SAMPLE_DOC \o SAMPLE_DOC
     [] doc = "gap" -> SubSeq(SAMPLE_DOC, 1, 200) \o [i \in 1..120 |-> " "]
                          \o <<"e", "n", "d", ".">> \o [i \in 1..126 |-> " "]
                          \o SubSeq(SAMPLE_DOC, 1, 100)
     [] doc = "long" -> [i \in 1..20200 |-> "a"]
     [] OTHER -> <<>>

NoContent == ""

\* content || fallback
ContentOr(content, fallback) ==
   IF DocText(content) = <<>> THEN fallback ELSE content

\* the characters of a chunk's text
Text(t) == SubSeq(DocText(t.doc), t.from, t.to)

TextLen(t) == t.to - t.from + 1

(***************************************************************************)
(* Chunker.                                                                *)
(***************************************************************************)
\* safeContent.slice(i, i + chunkSize).trim() as a window of the document
\* (i counts from 0, positions from 1)
TrimmedSlice(content, i) ==
   LET s == DocText(content)
       hi == Min(i + chunkSize, Len(s))
   IN  [doc |-> content, from |-> TrimFrom(s, i + 1, hi), to |-> TrimTo(s, i + 1, hi)]

\* fault variant: the stride without its floor
Stride_nofloor(size, ovl) == size - ovl

\* const step = Math.max(20, chunkSize - overlap)
Stride(size, ovl) == Max(minStride, size - ovl)

\* the loop of generateChunksLocally, from window start i with the chunks
\* generated so far
RECURSIVE ChunkLoop(_, _, _, _)
ChunkLoop(content, name, i, generated) ==
   IF i >= Len(DocText(content)) THEN generated
   ELSE LET text == TrimmedSlice(content, i)
            step == Stride(chunkSize, overlap)
            pushed == IF TextLen(text) > minChunkLen
                         THEN Append(generated,
                                     [id |-> ToString(Len(generated) + 1),
                                      text |-> text,
                                      state |-> "pending",
                                      metadata |-> <<name, "Segment",
                                                     ToString(Len(generated) + 1)>>])
                         ELSE generated
        IN  IF Len(pushed) >= maxChunks THEN pushed
            ELSE ChunkLoop(content, name, i + step, pushed)

\* fault variant: every chunk gets the id of the first
generateChunksLocally_sameId(content, name) ==
   [i \in 1..Len(ChunkLoop(content, name, 0, <<>>)) |->
      [ChunkLoop(content, name, 0, <<>>)[i] EXCEPT !.id = "1"]]

generateChunksLocally(content, name) == ChunkLoop(content, name, 0, <<>>)

\* the window starts i of the same loop whose slice is pushed, from window
\* start i with count chunks generated so far
RECURSIVE WindowStarts(_, _, _)
WindowStarts(content, i, count) ==
   IF i >= Len(DocText(content)) THEN {}
   ELSE LET kept == TextLen(TrimmedSlice(content, i)) > minChunkLen
            n == IF kept THEN count + 1 ELSE count
        IN  (IF kept THEN {i} ELSE {})
            \cup (IF n >= maxChunks THEN {}
                  ELSE WindowStarts(content, i + Stride(chunkSize, overlap), n))

(***************************************************************************)
(* Relevance scorer.                                                       *)
(***************************************************************************)
RuleWord == <<"r", "u", "l", "e">>

\* the score of one chunk before the jitter is added
BaseScore(q, keywords, c) ==
   LET text == toLowerCase(Text(c.text))
       hits == Cardinality({i \in 1..Len(keywords) : includes(text, keywords[i])})
   IN  keywordScore * hits
       + (IF includes(q, RuleWord) /\ includes(text, RuleWord) THEN ruleBonus ELSE 0)

\* Array.prototype.sort((a, b) => b.score - a.score): descending, stable
RECURSIVE InsertDesc(_, _)
InsertDesc(sorted, x) ==
   IF sorted = <<>> THEN <<x>>
   ELSE IF Head(sorted).score >= x.score
           THEN <<Head(sorted)>> \o InsertDesc(Tail(sorted), x)
           ELSE <<x>> \o sorted

RECURSIVE SortDesc(_)
SortDesc(s) ==
   IF s = <<>> THEN <<>>
   ELSE InsertDesc(SortDesc(SubSeq(s, 1, Len(s) - 1)), s[Len(s)])

\* the values Math.random() * 0.1 gives to n chunks in the model, in
\* hundredths: pattern k gives chunk i the jitter k * i modulo the range (all
\* equal for k = 0, growing with the position for k = 1)
JitterVectors(n) ==
   {[i \in 1..n |-> (k * i) % jitterRange] : k \in 0..(JitterPatterns - 1)}

\* currentChunks.map(c => { ...; return { ...c, score } }) with the values
\* jitter[i] drawn by Math.random for chunk i
Scored(currentQuery, currentChunks, jitter) ==
   LET q == toLowerCase(currentQuery)
       keywords == Keywords(q)
   IN  [i \in 1..Len(currentChunks) |->
          [id |-> currentChunks[i].id,
           text |-> currentChunks[i].text,
           state |-> currentChunks[i].state,
           metadata |-> currentChunks[i].metadata,
           score |-> BaseScore(q, keywords, currentChunks[i]) + jitter[i]]]

\* fault variant: chunks that match no keyword are dropped before the cut
performRetrieval_threshold(currentQuery, currentChunks, jitter) ==
   LET relevant == SelectSeq(Scored(currentQuery, currentChunks, jitter),
                             LAMBDA c : c.score >= keywordScore)
       sorted == SortDesc(relevant)
   IN  SubSeq(sorted, 1, Min(topK, Len(sorted)))

\* fault variant: the cut is taken without sorting
performRetrieval_unsorted(currentQuery, currentChunks, jitter) ==
   LET scored == Scored(currentQuery, currentChunks, jitter)
   IN  SubSeq(scored, 1, Min(topK, Len(scored)))

\* performRetrieval: scored.sort(...).slice(0, 5)
performRetrieval(currentQuery, currentChunks, jitter) ==
   LET sorted == SortDesc(Scored(currentQuery, currentChunks, jitter))
   IN  SubSeq(sorted, 1, Min(topK, Len(sorted)))
(***************************************************************************)
(* Values.                                                                 *)
(***************************************************************************)
RagSteps == <<"IDLE", "UPLOADING", "CHUNKING", "EMBEDDING", "STORING",
              "RETRIEVING", "GENERATING">>
AgentSteps == <<"IDLE", "ANALYZING_TASK", "PLANNING", "TOOL_EXECUTION",
                "REASONING", "SYNTHESIZING">>
SqlSteps == <<"IDLE", "PARSING", "GENERATING_SQL", "EXECUTING", "ANSWERING">>
AppModes == {"DOCUMENT_RAG", "AGENTIC_RAG", "TEXT_TO_SQL"}

\* null and undefined of JavaScript
Null == [null |-> TRUE]
Undefined == "undefined"

\* the queries the user types in the model: none, blanks only, a question
Queries == {<<>>, <<" ">>, <<"r", "u", "l", "e", " ", "4">>}
\* useSampleData's query 'Compare Rule 1 and Rule 2.'
SampleQuery == <<"C", "o", "m", "p", "a", "r", "e", " ", "R", "u", "l", "e", " ",
                 "1", " ", "a", "n", "d", " ", "R", "u", "l", "e", " ", "2", ".">>
\* 'Summarize the key points.'
DefaultRagQuery == <<"S", "u", "m", "m", "a", "r", "i", "z", "e", " ", "t", "h",
                     "e", " ", "k", "e", "y", " ", "p", "o", "i", "n", "t", "s", ".">>
\* 'Analyze Rule 2.'
DefaultAgentQuery == <<"A", "n", "a", "l", "y", "z", "e", " ", "R", "u", "l", "e",
                       " ", "2", ".">>
\* 'Show me revenue by region for 2024.'
DefaultSqlQuery == <<"S", "h", "o", "w", " ", "m", "e", " ", "r", "e", "v", "e",
                     "n", "u", "e", " ", "b", "y", " ", "r", "e", "g", "i", "o",
                     "n", " ", "f", "o", "r", " ", "2", "0", "2", "4", ".">>

\* the files the user uploads in the model
UploadFiles ==
   {[name |-> "tiny.txt", content |-> "tiny"],
    [name |-> "notes.txt", content |-> "notes"]}

\* what ai.models.generateContent resolves with (response.text): nothing, a
\* well-formed text, a text JSON.parse rejects
ResponseTexts == {"", "TEXT", "GARBAGE"}

FallbackAnswer == "I was unable to synthesize a response from the document."

(***************************************************************************)
(* Generation collaborator (GeminiService), after generateContent resolved *)
(* with responseText.  A rejection of generateContent is not caught by     *)
(* any of the three methods and rejects the method's promise.              *)
(***************************************************************************)
\* return response.text || "I was unable ..."
askWithContext(responseText) ==
   IF responseText = "" THEN FallbackAnswer ELSE responseText

\* try { return JSON.parse(response.text || '{}') } catch { return default }
textToSql(responseText) ==
   CASE responseText = "" -> [sql |-> Undefined, explanation |-> Undefined]
     [] responseText = "GARBAGE" ->
           [sql |-> "SELECT * FROM table;",
            explanation |-> "Failed to parse SQL response."]
     [] OTHER -> [sql |-> "SQL", explanation |-> "EXPLANATION"]

\* try { return JSON.parse(response.text || '[]') } catch { return [] }
simulateDatabaseQuery(responseText) ==
   CASE responseText = "" -> <<>>
     [] responseText = "GARBAGE" -> <<>>
     [] OTHER -> <<"ROW">>

(***************************************************************************)
(* State.                                                                  *)
(***************************************************************************)
VARIABLES
   app,         \* the useState / useRef cells of App, one field each
   reader,      \* the FileReader reads pending (contents to deliver to onload)
   runs,        \* the invocations of handle*Step in flight, oldest first
   cmds,        \* history: user commands issued so far
   tainted,     \* history: resetAll ran while a run was in flight, and runs
                \* have been in flight ever since
   sinceReset,  \* history: resetAll ran and no advance was accepted since
   lastEvent    \* history: the last step: its kind, the run that took it (as
                \* it left it), whether an advance was accepted, the stage
                \* entered, the query (arg) and chunks (ctx) passed to the
                \* scorer or the collaborator (a sequence of one, or none),
                \* and whether the step was untainted

vars == <<app, reader, runs, cmds, tainted, sinceReset, lastEvent>>

\* useState initial values and useRef(false), useRef(null)
InitApp ==
   [mode |-> "DOCUMENT_RAG",
    ragStep |-> "IDLE", agentStep |-> "IDLE", sqlStep |-> "IDLE",
    isAutoMode |-> FALSE, isProcessing |-> FALSE,
    fileContent |-> NoContent, fileName |-> "",
    chunks |-> <<>>, retrievedChunks |-> <<>>,
    query |-> <<>>, answer |-> "", thoughts |-> <<>>,
    sqlResult |-> Null, sqlResultRef |-> Null,
    processingRef |-> FALSE]

NoRun == [handler |-> "none"]
NoEvent == [kind |-> "init", run |-> NoRun, accepted |-> FALSE,
            began |-> "none", arg |-> <<>>, ctx |-> <<>>, clean |-> TRUE]

Init ==
   /\ app = InitApp
   /\ reader = <<>>
   /\ runs = <<>>
   /\ cmds = 0
   /\ tainted = FALSE
   /\ sinceReset = FALSE
   /\ lastEvent = NoEvent

(***************************************************************************)
(* resetAll.                                                               *)
(***************************************************************************)
\* fault variant: reset keeps the question and the thought trace
resetAll_keepQuery(s) ==
   [s EXCEPT !.ragStep = "IDLE", !.agentStep = "IDLE", !.sqlStep = "IDLE",
             !.chunks = <<>>, !.retrievedChunks = <<>>, !.answer = "",
             !.sqlResult = Null, !.sqlResultRef = Null,
             !.fileName = "", !.fileContent = NoContent, !.isAutoMode = FALSE,
             !.isProcessing = FALSE, !.processingRef = FALSE]

resetAll(s) ==
   [s EXCEPT !.ragStep = "IDLE", !.agentStep = "IDLE", !.sqlStep = "IDLE",
             !.chunks = <<>>, !.retrievedChunks = <<>>, !.answer = "",
             !.thoughts = <<>>, !.sqlResult = Null, !.sqlResultRef = Null,
             !.fileName = "", !.fileContent = NoContent, !.isAutoMode = FALSE,
             !.query = <<>>, !.isProcessing = FALSE, !.processingRef = FALSE]

(***************************************************************************)
(* Transition tables (the switch statements of the three handlers).        *)
(***************************************************************************)
Steps(h) == CASE h = "rag" -> RagSteps [] h = "agent" -> AgentSteps [] h = "sql" -> SqlSteps

StepIndex(h, step) == CHOOSE i \in 1..Len(Steps(h)) : Steps(h)[i] = step

Terminal(h) == Steps(h)[Len(Steps(h))]

\* switch (current) { case X: next = successor ... default: next = IDLE }
NextStep(h, current) ==
   IF current = Terminal(h) THEN "IDLE"
   ELSE Steps(h)[StepIndex(h, current) + 1]

StepOf(s, h) ==
   CASE h = "rag" -> s.ragStep [] h = "agent" -> s.agentStep [] h = "sql" -> s.sqlStep

\* fault variant: the fallback is never substituted
OrElse_none(x, fallback) == x

\* x || fallback for a string
OrElse(x, fallback) == IF x = <<>> THEN fallback ELSE x

(***************************************************************************)
(* Stage transition functions.  Each is split where it awaits: Begin is    *)
(* the code from its first line to the first await, with the await it      *)
(* stops at ("delay" or "collab"); Resume is the code between the          *)
(* collaborator's answer and the pacing delay.  c is the closure: the      *)
(* values of query, chunks, retrievedChunks, fileContent, fileName of the  *)
(* render the handler was invoked in.                                      *)
(***************************************************************************)
\* fault variant: every chunk is marked retrieved
MarkRetrieved_all(cs, localRetrieved) ==
   [i \in 1..Len(cs) |-> [cs[i] EXCEPT !.state = "retrieved"]]

\* prev.map(c => ({...c, state: localRetrieved.some(t => t.id === c.id)
\*                                  ? 'retrieved' : 'processed'}))
MarkRetrieved(cs, localRetrieved) ==
   [i \in 1..Len(cs) |->
      [cs[i] EXCEPT !.state =
         IF \E t \in 1..Len(localRetrieved) : localRetrieved[t].id = cs[i].id
            THEN "retrieved" ELSE "processed"]]

MarkProcessed(cs) == [i \in 1..Len(cs) |-> [cs[i] EXCEPT !.state = "processed"]]

\* the chunks TOOL_EXECUTION passes to performRetrieval
AgentRetrievalInput(c) ==
   IF Len(c.chunks) > 0 THEN c.chunks
   ELSE generateChunksLocally("SAMPLE_DOC", "Auto.pdf")

\* the chunks a transition passes to performRetrieval (one Math.random each)
RetrievalInput(h, c, targetStep) ==
   CASE h = "rag" /\ targetStep = "RETRIEVING" -> c.chunks
     [] h = "agent" /\ targetStep = "TOOL_EXECUTION" -> AgentRetrievalInput(c)
     [] OTHER -> <<>>

transitionToBegin(s, c, targetStep, jitter) ==
   LET s1 == [s EXCEPT !.isProcessing = TRUE]
       activeQuery == OrElse(trim(c.query), DefaultRagQuery)
   IN  CASE targetStep = "UPLOADING" ->
              [app |-> [s1 EXCEPT !.ragStep = "UPLOADING"],
               await |-> "delay", arg |-> <<>>, ctx |-> <<>>]
         [] targetStep = "CHUNKING" ->
              [app |-> [s1 EXCEPT !.ragStep = "CHUNKING",
                                  !.chunks = generateChunksLocally(
                                                ContentOr(c.fileContent, "SAMPLE_DOC"),
                                                IF c.fileName = "" THEN "Visualizer_Demo.pdf"
                                                                   ELSE c.fileName)],
               await |-> "delay", arg |-> <<>>, ctx |-> <<>>]
         [] targetStep = "EMBEDDING" ->
              [app |-> [s1 EXCEPT !.ragStep = "EMBEDDING",
                                  !.chunks = MarkProcessed(s.chunks)],
               await |-> "delay", arg |-> <<>>, ctx |-> <<>>]
         [] targetStep = "STORING" ->
              [app |-> [s1 EXCEPT !.ragStep = "STORING"],
               await |-> "delay", arg |-> <<>>, ctx |-> <<>>]
         [] targetStep = "RETRIEVING" ->
              LET localRetrieved == performRetrieval(activeQuery, c.chunks, jitter)
              IN  [app |-> [s1 EXCEPT !.ragStep = "RETRIEVING",
                                      !.retrievedChunks = localRetrieved,
                                      !.chunks = MarkRetrieved(s.chunks, localRetrieved)],
                   await |-> "delay", arg |-> <<activeQuery>>, ctx |-> <<c.chunks>>]
         [] targetStep = "GENERATING" ->
              [app |-> [s1 EXCEPT !.ragStep = "GENERATING", !.answer = ""],
               await |-> "collab", arg |-> <<activeQuery>>, ctx |-> <<c.retrievedChunks>>]
         [] OTHER ->
              [app |-> s1, await |-> "none", arg |-> <<>>, ctx |-> <<>>]

transitionAgentToBegin(s, c, targetStep, jitter) ==
   LET s1 == [s EXCEPT !.isProcessing = TRUE]
       activeQuery == OrElse(trim(c.query), DefaultAgentQuery)
   IN  CASE targetStep = "ANALYZING_TASK" ->
              [app |-> [s1 EXCEPT !.agentStep = "ANALYZING_TASK",
                                  !.thoughts = <<"Analyzing user intent...",
                                                 "Detected question requiring specific document validation.">>],
               await |-> "delay", arg |-> <<>>, ctx |-> <<>>]
         [] targetStep = "PLANNING" ->
              [app |-> [s1 EXCEPT !.agentStep = "PLANNING",
                                  !.thoughts = s.thoughts \o
                                     <<"Plan: Invoke 'doc_search' tool to verify guidelines.",
                                       "Defining search parameters...">>],
               await |-> "delay", arg |-> <<>>, ctx |-> <<>>]
         [] targetStep = "TOOL_EXECUTION" ->
              LET localChunks == generateChunksLocally(
                                    ContentOr(c.fileContent, "SAMPLE_DOC"),
                                    IF c.fileName = "" THEN "System_Auto.pdf"
                                                       ELSE c.fileName)
                  \* setChunks(localChunks), queued only if the closure's chunks are empty
                  prev == IF Len(c.chunks) = 0 THEN localChunks ELSE s.chunks
                  localRetrieved == performRetrieval(activeQuery, AgentRetrievalInput(c), jitter)
                  base == IF Len(prev) > 0 THEN prev
                          ELSE generateChunksLocally("SAMPLE_DOC", "Auto.pdf")
              IN  [app |-> [s1 EXCEPT !.agentStep = "TOOL_EXECUTION",
                                      !.thoughts = s.thoughts \o
                                         <<"Executing Tool: doc_search(query='Rule requirements')">>,
                                      !.retrievedChunks = localRetrieved,
                                      !.chunks = MarkRetrieved(base, localRetrieved)],
                   await |-> "delay", arg |-> <<activeQuery>>, ctx |-> <<AgentRetrievalInput(c)>>]
         [] targetStep = "REASONING" ->
              [app |-> [s1 EXCEPT !.agentStep = "REASONING",
                                  !.thoughts = s.thoughts \o
                                     <<"Comparing retrieved context with user constraints...",
                                       "Context found. Verifying grounding logic.">>],
               await |-> "delay", arg |-> <<>>, ctx |-> <<>>]
         [] targetStep = "SYNTHESIZING" ->
              [app |-> [s1 EXCEPT !.agentStep = "SYNTHESIZING",
                                  !.thoughts = s.thoughts \o
                                     <<"Finalizing answer with citations.">>],
               await |-> "collab", arg |-> <<activeQuery>>, ctx |-> <<c.retrievedChunks>>]
         [] OTHER ->
              [app |-> s1, await |-> "none", arg |-> <<>>, ctx |-> <<>>]

transitionSqlToBegin(s, c, targetStep) ==
   LET s1 == [s EXCEPT !.isProcessing = TRUE]
       activeQuery == OrElse(trim(c.query), DefaultSqlQuery)
   IN  CASE targetStep = "PARSING" ->
              [app |-> [s1 EXCEPT !.sqlStep = "PARSING",
                                  !.sqlResult = Null, !.sqlResultRef = Null],
               await |-> "delay", arg |-> <<>>, ctx |-> <<>>]
         [] targetStep = "GENERATING_SQL" ->
              [app |-> [s1 EXCEPT !.sqlStep = "GENERATING_SQL"],
               await |-> "collab", arg |-> <<activeQuery>>, ctx |-> <<>>]
         [] targetStep = "EXECUTING" ->
              [app |-> [s1 EXCEPT !.sqlStep = "EXECUTING"],
               await |-> IF s.sqlResultRef # Null THEN "collab" ELSE "delay",
               arg |-> IF s.sqlResultRef # Null THEN <<s.sqlResultRef.sql>> ELSE <<>>,
               ctx |-> <<>>]
         [] targetStep = "ANSWERING" ->
              [app |-> [s1 EXCEPT !.sqlStep = "ANSWERING"],
               await |-> "delay", arg |-> <<>>, ctx |-> <<>>]
         [] OTHER ->
              [app |-> s1, await |-> "none", arg |-> <<>>, ctx |-> <<>>]

\* fault variant: the transition into UPLOADING also clears the answer of
\* the run before
TransitionBegin_clearAnswer(h, s, c, targetStep, jitter) ==
   IF h = "rag" /\ targetStep = "UPLOADING"
      THEN transitionToBegin([s EXCEPT !.answer = ""], c, targetStep, jitter)
      ELSE CASE h = "rag" -> transitionToBegin(s, c, targetStep, jitter)
             [] h = "agent" -> transitionAgentToBegin(s, c, targetStep, jitter)
             [] h = "sql" -> transitionSqlToBegin(s, c, targetStep)

TransitionBegin(h, s, c, targetStep, jitter) ==
   CASE h = "rag" -> transitionToBegin(s, c, targetStep, jitter)
     [] h = "agent" -> transitionAgentToBegin(s, c, targetStep, jitter)
     [] h = "sql" -> transitionSqlToBegin(s, c, targetStep)

\* setAnswer(response)
transitionToResume(s, responseText) ==
   [s EXCEPT !.answer = askWithContext(responseText)]

transitionAgentToResume(s, responseText) ==
   [s EXCEPT !.answer = askWithContext(responseText)]

\* GENERATING_SQL: newResult = { ...res, results: [] }
\* EXECUTING:      updatedResult = { ...sqlResultRef.current, results }
transitionSqlToResume(s, targetStep, responseText) ==
   IF targetStep = "GENERATING_SQL"
      THEN LET res == textToSql(responseText)
               newResult == [sql |-> res.sql, explanation |-> res.explanation,
                             results |-> <<>>]
           IN  [s EXCEPT !.sqlResultRef = newResult, !.sqlResult = newResult]
      ELSE LET results == simulateDatabaseQuery(responseText)
               updatedResult ==
                  IF s.sqlResultRef = Null
                     THEN [sql |-> Undefined, explanation |-> Undefined,
                           results |-> results]
                     ELSE [s.sqlResultRef EXCEPT !.results = results]
           IN  [s EXCEPT !.sqlResultRef = updatedResult, !.sqlResult = updatedResult]

TransitionResume(h, s, targetStep, responseText) ==
   CASE h = "rag" -> transitionToResume(s, responseText)
     [] h = "agent" -> transitionAgentToResume(s, responseText)
     [] h = "sql" -> transitionSqlToResume(s, targetStep, responseText)

\* finally { setIsProcessing(false) } of the three transition functions
TransitionFinally(s) == [s EXCEPT !.isProcessing = FALSE]

(***************************************************************************)
(* Pipeline driver: handleStep, handleAgentStep, handleSqlStep.  The three *)
(* handlers have the same shape; h names the handler ("rag", "agent",      *)
(* "sql").  A run is the record of one invocation:                         *)
(*   handler, auto   the handler and its argument                          *)
(*   c               the closure (see above)                               *)
(*   current, next   the locals of the loop                                *)
(*   pc              the await the invocation is suspended at:             *)
(*                   "rerunDelay" (delay(100)), "transDelay" (the pacing   *)
(*                   delay of a transition), "collab" (a collaborator      *)
(*                   call), "yield" (delay(200)); "done" / "failed" once   *)
(*                   the promise has resolved / rejected                   *)
(*   from, n         history: the step it started at, transitions begun    *)
(***************************************************************************)
Handlers == {"rag", "agent", "sql"}

\* handleCommand's dispatch
ModeHandler(m) ==
   CASE m = "DOCUMENT_RAG" -> "rag"
     [] m = "AGENTIC_RAG" -> "agent"
     [] m = "TEXT_TO_SQL" -> "sql"

\* the state cells the handler and its transition function read from their
\* render (handleSqlStep / transitionSqlTo read only query)
Closure(s, h) ==
   IF h = "sql"
      THEN [query |-> s.query, chunks |-> <<>>, retrievedChunks |-> <<>>,
            fileContent |-> NoContent, fileName |-> ""]
      ELSE [query |-> s.query, chunks |-> s.chunks,
            retrievedChunks |-> s.retrievedChunks,
            fileContent |-> s.fileContent, fileName |-> s.fileName]

\* fault variant: the finally block leaves the busy flag set
HandlerFinally_keepBusy(s) ==
   [s EXCEPT !.isAutoMode = FALSE, !.isProcessing = FALSE]

\* finally { processingRef.current = false; setIsAutoMode(false); setIsProcessing(false) }
HandlerFinally(s) ==
   [s EXCEPT !.processingRef = FALSE, !.isAutoMode = FALSE, !.isProcessing = FALSE]

\* the handler suspended inside transitionXTo(next), which stopped as b says
Entered(r, next, b) ==
   [app |-> IF b.await = "none" THEN TransitionFinally(b.app) ELSE b.app,
    run |-> [r EXCEPT !.next = next, !.n = @ + 1,
                      !.current = IF b.await = "none" THEN next ELSE @,
                      !.pc = CASE b.await = "collab" -> "collab"
                               [] b.await = "delay" -> "transDelay"
                               [] OTHER -> "yield"],
    began |-> next, arg |-> b.arg, ctx |-> b.ctx]

\* one pass of the while loop up to the await inside the transition function:
\* next = successor of current; await transitionXTo(next)
LoopIter(s, r, jitter) ==
   Entered(r, NextStep(r.handler, r.current),
           TransitionBegin(r.handler, s, r.c, NextStep(r.handler, r.current), jitter))

\* if (current === terminal) { setXStep(IDLE); ...; current = IDLE }
RerunReset(h, s) ==
   CASE h = "rag" -> [s EXCEPT !.ragStep = "IDLE"]
     [] h = "agent" -> [s EXCEPT !.agentStep = "IDLE", !.thoughts = <<>>, !.answer = ""]
     [] h = "sql" -> [s EXCEPT !.sqlStep = "IDLE", !.sqlResult = Null,
                               !.sqlResultRef = Null]

\* fault variant: a rerun of handleStep goes straight into the first
\* transition, without the delay(100) after setRagStep(IDLE)
HandleStart_direct(h, s, auto, jitter) ==
   LET s1 == [s EXCEPT !.processingRef = TRUE, !.isAutoMode = auto]
       rerun == StepOf(s, h) = Terminal(h)
       r0 == [handler |-> h, auto |-> auto, c |-> Closure(s, h),
              current |-> IF rerun THEN "IDLE" ELSE StepOf(s, h),
              next |-> StepOf(s, h), pc |-> "start",
              from |-> StepOf(s, h), n |-> 0]
   IN  LoopIter(IF rerun THEN RerunReset(h, s1) ELSE s1, r0, jitter)

\* the handler from processingRef.current = true to its first await, which is
\* delay(100) in handleStep on a rerun and inside the first transition otherwise
HandleStart(h, s, auto, jitter) ==
   LET s1 == [s EXCEPT !.processingRef = TRUE, !.isAutoMode = auto]
       rerun == StepOf(s, h) = Terminal(h)
       r0 == [handler |-> h, auto |-> auto, c |-> Closure(s, h),
              current |-> IF rerun THEN "IDLE" ELSE StepOf(s, h),
              next |-> StepOf(s, h), pc |-> "start",
              from |-> StepOf(s, h), n |-> 0]
   IN  IF rerun /\ h = "rag"
          THEN [app |-> RerunReset(h, s1), run |-> [r0 EXCEPT !.pc = "rerunDelay"],
                began |-> "none", arg |-> <<>>, ctx |-> <<>>]
          ELSE LoopIter(IF rerun THEN RerunReset(h, s1) ELSE s1, r0, jitter)

\* fault variant: the handler without its guard
Handle_unguarded(h, s, auto, jitter) == HandleStart(h, s, auto, jitter)

\* fault variant: setIsAutoMode(auto) runs before the guard
Handle_autoFirst(h, s, auto, jitter) ==
   IF s.processingRef
      THEN [app |-> [s EXCEPT !.isAutoMode = auto], run |-> NoRun,
            began |-> "none", arg |-> <<>>, ctx |-> <<>>]
      ELSE HandleStart(h, s, auto, jitter)

\* the handler as invoked: if (processingRef.current) return; ...
Handle(h, s, auto, jitter) ==
   IF s.processingRef
      THEN [app |-> s, run |-> NoRun, began |-> "none", arg |-> <<>>, ctx |-> <<>>]
      ELSE HandleStart(h, s, auto, jitter)

\* the pacing delay of a transition elapsed: its finally, then back in the
\* handler: current = next; await delay(200)
AfterTransitionDelay(s, r) ==
   [app |-> TransitionFinally(s),
    run |-> [r EXCEPT !.current = r.next, !.pc = "yield"],
    began |-> "none", arg |-> <<>>, ctx |-> <<>>]

\* fault variant: the loop stops after one transition whatever auto is
AfterYield_once(s, r, jitter) ==
   [app |-> HandlerFinally(s), run |-> [r EXCEPT !.pc = "done"],
    began |-> "none", arg |-> <<>>, ctx |-> <<>>]

\* fault variant: the auto loop of the document pipeline stops at STORING
\* while the query is blank (the behaviour of advanceRagStep in the earlier
\* version of the component)
AfterYield_pause(s, r, jitter) ==
   IF \/ ~r.auto
      \/ r.current = Terminal(r.handler)
      \/ (r.handler = "rag" /\ r.current = "STORING" /\ trim(r.c.query) = <<>>)
      THEN [app |-> HandlerFinally(s), run |-> [r EXCEPT !.pc = "done"],
            began |-> "none", arg |-> <<>>, ctx |-> <<>>]
      ELSE LoopIter(s, r, jitter)

\* fault variant: the loop ignores auto and runs on to the terminal step
AfterYield_always(s, r, jitter) ==
   IF r.current = Terminal(r.handler)
      THEN [app |-> HandlerFinally(s), run |-> [r EXCEPT !.pc = "done"],
            began |-> "none", arg |-> <<>>, ctx |-> <<>>]
      ELSE LoopIter(s, r, jitter)

\* fault variant: the auto loop stops one stage before the terminal step
AfterYield_early(s, r, jitter) ==
   IF \/ ~r.auto
      \/ r.current = Terminal(r.handler)
      \/ NextStep(r.handler, r.current) = Terminal(r.handler)
      THEN [app |-> HandlerFinally(s), run |-> [r EXCEPT !.pc = "done"],
            began |-> "none", arg |-> <<>>, ctx |-> <<>>]
      ELSE LoopIter(s, r, jitter)

\* delay(200) elapsed: if (!auto || current === terminal) keepGoing = false;
\* leave the loop through the handler's finally, or go round again
AfterYield(s, r, jitter) ==
   IF ~r.auto \/ r.current = Terminal(r.handler)
      THEN [app |-> HandlerFinally(s), run |-> [r EXCEPT !.pc = "done"],
            began |-> "none", arg |-> <<>>, ctx |-> <<>>]
      ELSE LoopIter(s, r, jitter)

\* the collaborator call resolved: the rest of the transition up to its delay
AfterResolve(s, r, responseText) ==
   [app |-> TransitionResume(r.handler, s, r.next, responseText),
    run |-> [r EXCEPT !.pc = "transDelay"],
    began |-> "none", arg |-> <<>>, ctx |-> <<>>]

\* fault variant: a rejection leaves through the transition's finally only,
\* the handler's finally is skipped
AfterReject_keepBusy(s, r) ==
   [app |-> TransitionFinally(s),
    run |-> [r EXCEPT !.pc = "failed"],
    began |-> "none", arg |-> <<>>, ctx |-> <<>>]

\* the collaborator call rejected: no catch in the transition function nor in
\* the handler; both finally blocks run and the handler's promise rejects
AfterReject(s, r) ==
   [app |-> HandlerFinally(TransitionFinally(s)),
    run |-> [r EXCEPT !.pc = "failed"],
    began |-> "none", arg |-> <<>>, ctx |-> <<>>]

(***************************************************************************)
(* Actions.                                                                *)
(***************************************************************************)
RemoveAt(s, i) == SubSeq(s, 1, i - 1) \o SubSeq(s, i + 1, Len(s))

\* the step the first transition of an invocation enters
FirstTarget(h, s) ==
   NextStep(h, IF StepOf(s, h) = Terminal(h) THEN "IDLE" ELSE StepOf(s, h))

JitterChoices(h, c, targetStep) ==
   JitterVectors(Len(RetrievalInput(h, c, targetStep)))

Event(kind, res, accepted) ==
   [kind |-> kind, run |-> res.run, accepted |-> accepted,
    began |-> res.began, arg |-> res.arg, ctx |-> res.ctx, clean |-> ~tainted]

UserEvent(kind) ==
   [kind |-> kind, run |-> NoRun, accepted |-> FALSE,
    began |-> "none", arg |-> <<>>, ctx |-> <<>>, clean |-> ~tainted]

\* a user command that invokes handler h
Invoke(h, auto) ==
   /\ cmds < MaxCmds
   /\ cmds' = cmds + 1
   /\ \E jitter \in JitterChoices(h, Closure(app, h), FirstTarget(h, app)) :
         \E res \in {Handle(h, app, auto, jitter)} :
            \E accepted \in {res.run # NoRun} :
               /\ accepted => Len(runs) < MaxRuns
               /\ app' = res.app
               /\ runs' = IF accepted THEN Append(runs, res.run) ELSE runs
               /\ sinceReset' = (sinceReset /\ ~accepted)
               /\ tainted' = (tainted /\ Len(runs') > 0)
               /\ lastEvent' = Event("advance", res, accepted)
   /\ UNCHANGED reader

handleStep(auto) == Invoke("rag", auto)
handleAgentStep(auto) == Invoke("agent", auto)
handleSqlStep(auto) == Invoke("sql", auto)

\* the buttons Run Loop (auto) and Next Phase
handleCommand(auto) ==
   \/ app.mode = "DOCUMENT_RAG" /\ handleStep(auto)
   \/ app.mode = "AGENTIC_RAG" /\ handleAgentStep(auto)
   \/ app.mode = "TEXT_TO_SQL" /\ handleSqlStep(auto)

\* run i goes on with result res
Continue(i, kind, res) ==
   /\ app' = res.app
   /\ runs' = IF res.run.pc \in {"done", "failed"} THEN RemoveAt(runs, i)
              ELSE [runs EXCEPT ![i] = res.run]
   /\ tainted' = (tainted /\ Len(runs') > 0)
   /\ lastEvent' = Event(kind, res, FALSE)
   /\ UNCHANGED <<reader, cmds, sinceReset>>

RerunDelayElapsed(i) ==
   /\ runs[i].pc = "rerunDelay"
   /\ \E jitter \in JitterChoices(runs[i].handler, runs[i].c,
                                  NextStep(runs[i].handler, runs[i].current)) :
         \E res \in {LoopIter(app, runs[i], jitter)} : Continue(i, "timer", res)

TransitionDelayElapsed(i) ==
   /\ runs[i].pc = "transDelay"
   /\ \E res \in {AfterTransitionDelay(app, runs[i])} : Continue(i, "timer", res)

YieldElapsed(i) ==
   /\ runs[i].pc = "yield"
   /\ \E jitter \in JitterChoices(runs[i].handler, runs[i].c,
                                  NextStep(runs[i].handler, runs[i].current)) :
         \E res \in {AfterYield(app, runs[i], jitter)} : Continue(i, "timer", res)

\* the response texts a collaborator method distinguishes
Responses(h) == IF h = "sql" THEN ResponseTexts ELSE {"", "TEXT"}

CollabResolve(i) ==
   /\ runs[i].pc = "collab"
   /\ \E responseText \in Responses(runs[i].handler) :
         \E res \in {AfterResolve(app, runs[i], responseText)} :
            Continue(i, "resolve", res)

CollabReject(i) ==
   /\ runs[i].pc = "collab"
   /\ \E res \in {AfterReject(app, runs[i])} : Continue(i, "reject", res)

\* a user command that calls resetAll and leaves the state s
Reset(kind, s) ==
   /\ cmds < MaxCmds
   /\ cmds' = cmds + 1
   /\ app' = s
   /\ tainted' = (tainted \/ Len(runs) > 0)
   /\ sinceReset' = TRUE
   /\ lastEvent' = UserEvent(kind)
   /\ UNCHANGED runs

\* the X button
ResetAll ==
   /\ Reset("reset", resetAll(app))
   /\ UNCHANGED reader

\* the mode buttons: setMode(m); resetAll() (the button of the current mode
\* is ResetAll)
SwitchMode(m) ==
   /\ m # app.mode
   /\ Reset("mode", resetAll([app EXCEPT !.mode = m]))
   /\ UNCHANGED reader

\* the Demo button and the file input are rendered in the two RAG modes while
\* no file is named
SourceVisible == app.mode # "TEXT_TO_SQL" /\ app.fileName = ""

useSampleData ==
   /\ SourceVisible
   /\ Reset("sample", [resetAll(app) EXCEPT
                          !.fileName = "AI_Architecture_Guidelines.pdf",
                          !.fileContent = "SAMPLE_DOC",
                          !.query = SampleQuery])
   /\ UNCHANGED reader

\* resetAll(); setFileName(file.name); reader.readAsText(file) (one file is
\* read at a time)
onFileUpload(file) ==
   /\ SourceVisible
   /\ reader = <<>>
   /\ Reset("upload", [resetAll(app) EXCEPT !.fileName = file.name])
   /\ reader' = Append(reader, file.content)

\* reader.onload: setFileContent(result)
ReaderOnload ==
   /\ reader # <<>>
   /\ app' = [app EXCEPT !.fileContent = Head(reader)]
   /\ reader' = Tail(reader)
   /\ lastEvent' = UserEvent("loaded")
   /\ UNCHANGED <<runs, cmds, tainted, sinceReset>>

\* the query textarea
setQuery(q) ==
   /\ q # app.query
   /\ cmds < MaxCmds
   /\ cmds' = cmds + 1
   /\ app' = [app EXCEPT !.query = q]
   /\ lastEvent' = UserEvent("setQuery")
   /\ UNCHANGED <<reader, runs, tainted, sinceReset>>

Next ==
   \/ \E auto \in BOOLEAN : handleCommand(auto)
   \/ \E i \in 1..Len(runs) : RerunDelayElapsed(i)
   \/ \E i \in 1..Len(runs) : TransitionDelayElapsed(i)
   \/ \E i \in 1..Len(runs) : YieldElapsed(i)
   \/ \E i \in 1..Len(runs) : CollabResolve(i)
   \/ \E i \in 1..Len(runs) : CollabReject(i)
   \/ ResetAll
   \/ \E m \in AppModes : SwitchMode(m)
   \/ useSampleData
   \/ \E file \in UploadFiles : onFileUpload(file)
   \/ ReaderOnload
   \/ \E q \in Queries : setQuery(q)

Spec == Init /\ [][Next]_vars

\* the step invocation i takes when the timer or the collaborator call it
\* awaits settles
RunStep(i) ==
   /\ i \in 1..Len(runs)
   /\ \/ RerunDelayElapsed(i)
      \/ TransitionDelayElapsed(i)
      \/ YieldElapsed(i)
      \/ CollabResolve(i)
      \/ CollabReject(i)

\* an invocation is in flight: it awaits a timer or a collaborator call; this
\* is exactly when some RunStep(i) is enabled, finished invocations being
\* removed from runs
Awaiting == Len(runs) > 0

\* a step of an invocation in flight was taken: only RunStep records these
\* event kinds
RunStepTaken == lastEvent'.kind \in {"timer", "resolve", "reject"}

\* timers fire and collaborator calls settle: weak fairness of
\* \E i : RunStep(i), i.e. WF_vars(\E i \in 1..Len(runs) : RunStep(i)), written
\* out by its definition []<>~ENABLED <<A>>_vars \/ []<><<A>>_vars
FairSpec == Spec /\ ([]<>(~Awaiting) \/ []<><<RunStepTaken>>_vars)

(***************************************************************************)
(* The chunker and the scorer on a range of inputs: the document pipeline  *)
(* stepped by hand (Next Phase) from IDLE to RETRIEVING, one invocation at *)
(* a time, over the documents and queries below.                           *)
(***************************************************************************)
ProbeFiles ==
   {[name |-> "AI_Architecture_Guidelines.pdf", content |-> "SAMPLE_DOC"],
    [name |-> "notes.txt", content |-> "notes"],
    [name |-> "tiny.txt", content |-> "tiny"],
    [name |-> "head450.txt", content |-> "head450"],
    [name |-> "twice.txt", content |-> "twice"],
    [name |-> "gap.txt", content |-> "gap"]}

RuleFourQuery == <<"r", "u", "l", "e", " ", "4">>

\* a query none of whose words occurs in a document
NoMatchQuery == <<"z", "e", "b", "r", "a", " ", "c", "r", "o", "s", "s", "i", "n", "g">>

ProbeQueries == {<<>>, RuleFourQuery, NoMatchQuery, SampleQuery}

\* a file was chosen and read and a query was typed; nothing is in flight
ProbeInit ==
   /\ \E file \in ProbeFiles, q \in ProbeQueries :
         app = [InitApp EXCEPT !.fileName = file.name,
                               !.fileContent = file.content,
                               !.query = q]
   /\ reader = <<>>
   /\ runs = <<>>
   /\ cmds = 0
   /\ tainted = FALSE
   /\ sinceReset = FALSE
   /\ lastEvent = NoEvent

\* handleStep(false) from the click to the end of the invocation: the
\* transition, its pacing delay, delay(200), finally
ProbeAdvance ==
   /\ runs = <<>>
   /\ app.ragStep \notin {"RETRIEVING", "GENERATING"}
   /\ \E jitter \in JitterChoices("rag", Closure(app, "rag"), FirstTarget("rag", app)) :
         \E entered \in {Handle("rag", app, FALSE, jitter)} :
            \E paced \in {AfterTransitionDelay(entered.app, entered.run)} :
               \E ended \in {AfterYield(paced.app, paced.run, jitter)} :
                  /\ app' = ended.app
                  /\ lastEvent' = [Event("advance", entered, TRUE)
                                     EXCEPT !.run = ended.run]
   /\ UNCHANGED <<reader, runs, cmds, tainted, sinceReset>>

ProbeNext == ProbeAdvance

ProbeSpec == ProbeInit /\ [][ProbeNext]_vars
(***************************************************************************)
(* Properties.                                                             *)
(***************************************************************************)
\* the run that took the last step
LastRun == lastEvent.run

\* the last step ended an invocation of a handler (its promise settled)
RunEnded == LastRun # NoRun /\ LastRun.pc \in {"done", "failed"}

\* the closure of run r holds no question
BlankQuery(r) == trim(r.c.query) = <<>>

\* C1: an advance invoked while an earlier invocation is in flight (no reset
\* in between) changes nothing: no cell of the component is written and no
\* invocation is added, so nothing runs later on its behalf; the one manual
\* invocation in flight ends after exactly one transition.
C1_SecondAdvanceDropped ==
   [][ /\ (lastEvent'.kind = "advance" /\ cmds' # cmds /\ ~tainted /\ Len(runs) > 0)
          => (app' = app /\ runs' = runs /\ ~lastEvent'.accepted)
       /\ (lastEvent'.run # NoRun /\ lastEvent'.run.pc = "done"
             /\ ~lastEvent'.run.auto /\ lastEvent'.clean)
          => lastEvent'.run.n = 1
     ]_vars

\* a second advance was dropped while the first invocation is still in flight
C1_Witness ==
   /\ lastEvent.kind = "advance"
   /\ ~lastEvent.accepted
   /\ lastEvent.clean
   /\ Len(runs) = 1
   /\ app.processingRef

\* C2: in every reachable state at most one invocation of a handler is in
\* progress.
C2_AtMostOneRun == Len(runs) <= 1

\* the cells resetAll clears, at the values it gives them
AtResetValues ==
   /\ app.ragStep = "IDLE" /\ app.agentStep = "IDLE" /\ app.sqlStep = "IDLE"
   /\ app.chunks = <<>>
   /\ app.retrievedChunks = <<>>
   /\ app.answer = ""
   /\ app.sqlResult = Null

\* C3: from a reset (or mode switch) until the next accepted advance, the
\* step, the chunk list, the retrieved subset, the answer and the SQL result
\* stay at their reset values, whatever an invocation in flight does.
C3_NoStaleWrite == sinceReset => AtResetValues

\* C4: every change of a mode's step is to its immediate successor in the
\* mode's table or to IDLE.
C4_StepOrder ==
   [][ \A h \in Handlers :
          StepOf(app', h) \in {StepOf(app, h), NextStep(h, StepOf(app, h)), "IDLE"}
     ]_vars

\* an automatic invocation of handleStep from IDLE with a document and a question
AutoRagFromIdle(r) ==
   /\ r # NoRun
   /\ r.handler = "rag" /\ r.auto /\ r.from = "IDLE"
   /\ r.c.fileContent # NoContent
   /\ ~BlankQuery(r)

\* C5: an automatic invocation from IDLE in the document pipeline, with a
\* document and a question and no reset interfering, moves ragStep one
\* successor at a time (each stage it enters is the value of ragStep in a
\* state of its own), and has begun exactly six transitions (into UPLOADING
\* and the five from there to GENERATING) when ragStep is GENERATING and when
\* it ends.
C5_AutoRunReachesGenerating ==
   [][ (lastEvent'.clean /\ AutoRagFromIdle(lastEvent'.run))
       => /\ app'.ragStep \in {app.ragStep, NextStep("rag", app.ragStep)}
          /\ lastEvent'.began # "none"
                => (app.ragStep # lastEvent'.began /\ app'.ragStep = lastEvent'.began)
          /\ (app'.ragStep = "GENERATING") <=> (lastEvent'.run.n = 6)
          /\ lastEvent'.run.pc \in {"done", "failed"}
                => (lastEvent'.run.n = 6 /\ app'.ragStep = "GENERATING")
     ]_vars

\* such an invocation has ended at GENERATING
C5_Witness ==
   /\ lastEvent.clean
   /\ AutoRagFromIdle(LastRun)
   /\ LastRun.pc = "done"
   /\ LastRun.n = 6
   /\ app.ragStep = "GENERATING"

\* an automatic invocation of handleStep, alone in flight, has completed
\* STORING and was invoked with a blank query
AutoRagAfterStoring ==
   /\ ~tainted
   /\ Len(runs) = 1
   /\ runs[1].handler = "rag" /\ runs[1].auto
   /\ runs[1].pc = "yield" /\ runs[1].current = "STORING"
   /\ BlankQuery(runs[1])

\* C6 (as the code has it): an automatic invocation in the document pipeline
\* with a blank query does not pause at STORING: the step the invocation takes
\* after STORING moves ragStep to RETRIEVING, without any user command.
C6_NoPauseAtStoring ==
   [][ (AutoRagAfterStoring /\ lastEvent'.kind = "timer")
       => (app'.ragStep = "RETRIEVING" /\ cmds' = cmds /\ Len(runs') = 1)
     ]_vars

\* one command (Run Loop, no question typed) has brought ragStep to RETRIEVING
C6_Witness ==
   /\ cmds = 1
   /\ lastEvent.began = "RETRIEVING"
   /\ LastRun.handler = "rag" /\ LastRun.auto /\ LastRun.from = "IDLE"
   /\ BlankQuery(LastRun)
   /\ app.query = <<>>
   /\ app.ragStep = "RETRIEVING"

\* C6 (as the specification has it): ragStep moves from STORING to RETRIEVING
\* only if a query has been supplied or the advance is manual.
C6_PausesAtStoring ==
   [][ (app.ragStep = "STORING" /\ app'.ragStep = "RETRIEVING")
       => (trim(app.query) # <<>> \/ ~lastEvent'.run.auto)
     ]_vars

\* C7: an invocation of handleStep made with no question typed passes the
\* fallback 'Summarize the key points.' to the scorer on entering RETRIEVING
\* and to the collaborator on entering GENERATING, and when automatic it ends
\* normally only at GENERATING (it does not stop at STORING or RETRIEVING).
C7_FallbackQuery ==
   (LastRun.handler = "rag" /\ BlankQuery(LastRun))
   => /\ lastEvent.began \in {"RETRIEVING", "GENERATING"}
            => lastEvent.arg = <<DefaultRagQuery>>
      /\ (LastRun.auto /\ LastRun.pc = "done") => LastRun.current = "GENERATING"

\* an automatic invocation from IDLE with no question has called the
\* collaborator with the fallback
C7_Witness ==
   /\ LastRun.handler = "rag" /\ LastRun.auto /\ LastRun.from = "IDLE"
   /\ BlankQuery(LastRun)
   /\ lastEvent.began = "GENERATING"
   /\ LastRun.pc = "collab"
   /\ lastEvent.arg = <<DefaultRagQuery>>

\* C8: when an invocation of a handler ends, normally or by a rejection,
\* processingRef, isAutoMode and isProcessing are all false, and the handler
\* of the current mode accepts the next invocation.
C8_FinallyClearsFlags ==
   RunEnded
   => /\ ~app.processingRef /\ ~app.isAutoMode /\ ~app.isProcessing
      /\ \A auto \in BOOLEAN :
            \A jitter \in JitterChoices(ModeHandler(app.mode),
                                        Closure(app, ModeHandler(app.mode)),
                                        FirstTarget(ModeHandler(app.mode), app)) :
               Handle(ModeHandler(app.mode), app, auto, jitter).run # NoRun

\* an automatic invocation has ended by the rejection of a collaborator call
C8_Witness ==
   /\ lastEvent.kind = "reject"
   /\ LastRun.pc = "failed"
   /\ LastRun.auto
   /\ ~app.processingRef /\ ~app.isAutoMode /\ ~app.isProcessing

\* C9: when a transition function rejects, the step of the pipeline is the
\* last one whose stage completed (the handler's local current), not the
\* stage that failed.
C9_FailedStageNotShown ==
   (lastEvent.kind = "reject" /\ lastEvent.clean)
   => StepOf(app, LastRun.handler) = LastRun.current

\* C10: no invocation of a handler ends by a rejection, and an automatic
\* invocation that ends (no reset interfering) leaves its pipeline at the
\* terminal step.
C10_CollaboratorFailureContained ==
   RunEnded
   => /\ LastRun.pc = "done"
      /\ (LastRun.auto /\ lastEvent.clean)
            => StepOf(app, LastRun.handler) = Terminal(LastRun.handler)

\* C11: whenever the busy flag (processingRef) is set it is eventually
\* cleared, provided timers fire and collaborator calls settle.
C11_BusyFlagEventuallyCleared == app.processingRef ~> ~app.processingRef

\* the busy flag has been cleared by the end of the one invocation that set it
C11_Witness ==
   /\ RunEnded
   /\ lastEvent.kind = "timer"
   /\ lastEvent.clean
   /\ Len(runs) = 0
   /\ ~app.processingRef
   /\ cmds = 1

\* the step a manual invocation that started at step from has to end at
ManualTarget(h, from) ==
   NextStep(h, IF from = Terminal(h) THEN "IDLE" ELSE from)

\* C12: a manual invocation (auto not requested, no reset interfering) that
\* ends normally has called its transition function exactly once, and the
\* step of its pipeline is the successor of the step it started from (the
\* first stage when it started from the terminal step, which it first
\* resets to IDLE).
C12_ManualOneCycle ==
   (RunEnded /\ LastRun.pc = "done" /\ ~LastRun.auto /\ lastEvent.clean)
   => /\ LastRun.n = 1
      /\ LastRun.current = ManualTarget(LastRun.handler, LastRun.from)
      /\ StepOf(app, LastRun.handler) = LastRun.current

\* a manual invocation from a middle step has ended one stage further on
C12_Witness ==
   /\ RunEnded /\ LastRun.pc = "done" /\ ~LastRun.auto /\ lastEvent.clean
   /\ LastRun.from \notin {"IDLE", Terminal(LastRun.handler)}
   /\ LastRun.n = 1
   /\ StepOf(app, LastRun.handler) = NextStep(LastRun.handler, LastRun.from)

(***************************************************************************)
(* Scorer and chunker (ProbeSpec unless stated otherwise).                 *)
(***************************************************************************)
\* the RETRIEVING transition has just run performRetrieval on the query
\* lastEvent.arg[1] and the chunks lastEvent.ctx[1]
Retrieved == lastEvent.began = "RETRIEVING"

\* C13: whatever the query (one that matches no chunk included) and the chunk
\* set, performRetrieval returns exactly min(topK, |chunks|) chunks, so the
\* result is not empty when the chunk set is not empty.
C13_ResultLength ==
   Retrieved =>
      /\ Len(app.retrievedChunks) = Min(topK, Len(lastEvent.ctx[1]))
      /\ (Len(lastEvent.ctx[1]) > 0 => Len(app.retrievedChunks) > 0)

\* a query that matches nothing over nine chunks: five are returned
C13_Witness ==
   /\ Retrieved
   /\ lastEvent.arg[1] = NoMatchQuery
   /\ Len(lastEvent.ctx[1]) > topK
   /\ Len(app.retrievedChunks) = topK
   /\ \A t \in 1..topK : app.retrievedChunks[t].score < keywordScore

\* res is in descending order of score and holds the highest scores of scored
SortedTopK(scored, res) ==
   /\ \A t \in 1..Len(res) : \E i \in 1..Len(scored) : scored[i] = res[t]
   /\ \A t \in 1..(Len(res) - 1) : res[t].score >= res[t + 1].score
   /\ \A i \in 1..Len(scored) :
         (\A t \in 1..Len(res) : res[t].id # scored[i].id)
            => \A t \in 1..Len(res) : scored[i].score <= res[t].score

\* C14: the sequence performRetrieval returns is in descending order of score
\* and no chunk left out of it has a score strictly greater than a chunk in
\* it (the scores being those of one draw of the jitter).
C14_SortedTopK ==
   Retrieved =>
      \E jitter \in JitterVectors(Len(lastEvent.ctx[1])) :
         SortedTopK(Scored(lastEvent.arg[1], lastEvent.ctx[1], jitter),
                    app.retrievedChunks)

\* nine chunks with different scores: the first chunk of the document is not
\* the first of the result, and chunks are left out
C14_Witness ==
   /\ Retrieved
   /\ Len(lastEvent.ctx[1]) > topK
   /\ Len(app.retrievedChunks) = topK
   /\ app.retrievedChunks[1].score > app.retrievedChunks[topK].score
   /\ app.retrievedChunks[1].id # lastEvent.ctx[1][1].id

\* chunk c is one of the retrieved subset
InRetrieved(c) ==
   \E t \in 1..Len(app.retrievedChunks) : app.retrievedChunks[t].id = c.id

\* C15: after the RETRIEVING transition a chunk of the chunk list has state
\* 'retrieved' if and only if its id is in the retrieved subset the transition
\* stored, and every other chunk has state 'processed'.
C15_RetrievedStates ==
   Retrieved =>
      \A i \in 1..Len(app.chunks) :
         /\ app.chunks[i].state = "retrieved" <=> InRetrieved(app.chunks[i])
         /\ ~InRetrieved(app.chunks[i]) => app.chunks[i].state = "processed"

\* nine chunks, five of them retrieved and four processed
C15_Witness ==
   /\ Retrieved
   /\ Len(app.retrievedChunks) = topK
   /\ Cardinality({i \in 1..Len(app.chunks) : app.chunks[i].state = "retrieved"}) = topK
   /\ Cardinality({i \in 1..Len(app.chunks) : app.chunks[i].state = "processed"}) > 0

\* the CHUNKING transition has just run generateChunksLocally on the content
\* ChunkedContent
Chunked == lastEvent.began = "CHUNKING"

\* const activeContent = fileContent || SAMPLE_DOC
ChunkedContent == ContentOr(app.fileContent, "SAMPLE_DOC")

\* ceil(a / b) for b > 0
CeilDiv(a, b) == -((-a) \div b)

\* C16: for a content of length L >= chunkSize the chunker emits
\* ceil((L - chunkSize) / (chunkSize - overlap)) + 1 chunks, clipped by
\* maxChunks.
C16_ChunkCount ==
   (Chunked /\ Len(DocText(ChunkedContent)) >= chunkSize) =>
      Len(app.chunks) =
         Min(maxChunks,
             CeilDiv(Len(DocText(ChunkedContent)) - chunkSize, chunkSize - overlap) + 1)

\* C17: every character position of the content lies inside the window
\* [i, i + chunkSize) of at least one emitted chunk (the cut-off at maxChunks
\* not being reached).
C17_NoGaps ==
   (Chunked /\ Len(app.chunks) < maxChunks) =>
      \A p \in 0..(Len(DocText(ChunkedContent)) - 1) :
         \E i \in WindowStarts(ChunkedContent, 0, 0) : i <= p /\ p < i + chunkSize

\* C18 (Spec): in every reachable state no two chunks of the chunk list have
\* the same id; the id of the n-th chunk is the ordinal n.
C18_UniqueIds ==
   /\ \A i, j \in 1..Len(app.chunks) :
         i # j => app.chunks[i].id # app.chunks[j].id
   /\ \A i \in 1..Len(app.chunks) : app.chunks[i].id = ToString(i)

\* a chunk list of five chunks just produced by the CHUNKING transition
C18_Witness ==
   /\ Chunked
   /\ Len(app.chunks) = 5
   /\ {app.chunks[i].id : i \in 1..5} = {"1", "2", "3", "4", "5"}

\* the ids of a sequence of chunks
Ids(cs) == {cs[i].id : i \in 1..Len(cs)}

\* C19 (Spec): the ids a CHUNKING transition produces are disjoint from the
\* ids of the retrieved chunks carried over from the previous chunk set (no
\* reset or mode switch having interfered with an invocation in flight).
C19_DisjointIds ==
   (Chunked /\ lastEvent.clean) =>
      Ids(app.chunks) \cap Ids(app.retrievedChunks) = {}

\* the characters of "4"
FourToken == <<"4">>

\* chunk c contains the substrings 'rule' and '4' (case not distinguished)
HasRuleAndFour(c) ==
   /\ includes(toLowerCase(Text(c.text)), RuleWord)
   /\ includes(toLowerCase(Text(c.text)), FourToken)

\* the score of chunk c for query q before the jitter is added
DeterministicScore(q, c) == BaseScore(toLowerCase(q), Keywords(toLowerCase(q)), c)

\* C20: for the query 'rule 4' over a chunk set in which exactly one chunk
\* contains both 'rule' and '4', the score of that chunk before jitter
\* strictly exceeds that of every chunk that does not contain both, and the
\* chunk ranks first.
C20_RuleFourRanksFirst ==
   (/\ Retrieved
    /\ lastEvent.arg[1] = RuleFourQuery
    /\ Cardinality({i \in 1..Len(lastEvent.ctx[1]) :
                      HasRuleAndFour(lastEvent.ctx[1][i])}) = 1)
   => \A i \in 1..Len(lastEvent.ctx[1]) :
         HasRuleAndFour(lastEvent.ctx[1][i]) =>
            /\ \A j \in 1..Len(lastEvent.ctx[1]) :
                  ~HasRuleAndFour(lastEvent.ctx[1][j]) =>
                     DeterministicScore(RuleFourQuery, lastEvent.ctx[1][i])
                        > DeterministicScore(RuleFourQuery, lastEvent.ctx[1][j])
            /\ app.retrievedChunks[1].id = lastEvent.ctx[1][i].id

(***************************************************************************)
(* Reruns, traces and flags (Spec).                                        *)
(***************************************************************************)
\* the last step belongs to an invocation of handleStep made at GENERATING
RerunOfRag ==
   /\ LastRun # NoRun
   /\ LastRun.handler = "rag"
   /\ LastRun.from = "GENERATING"

\* C21: an advance accepted while the document pipeline is at GENERATING
\* leaves the step at IDLE with no transition begun (the invocation waits in
\* delay(100)); the first transition it begins afterwards is UPLOADING.
C21_IdleBeforeRerun ==
   /\ (RerunOfRag /\ lastEvent.kind = "advance" /\ lastEvent.accepted)
         => /\ app.ragStep = "IDLE"
            /\ LastRun.pc = "rerunDelay"
            /\ LastRun.n = 0
            /\ lastEvent.began = "none"
   /\ (RerunOfRag /\ LastRun.n = 1 /\ lastEvent.began # "none")
         => lastEvent.began = "UPLOADING"

\* the step is IDLE between GENERATING and UPLOADING
C21_Witness ==
   /\ RerunOfRag
   /\ lastEvent.kind = "advance" /\ lastEvent.accepted /\ lastEvent.clean
   /\ app.ragStep = "IDLE"
   /\ Len(runs) = 1 /\ runs[1].pc = "rerunDelay"

\* C22: in the SQL pipeline the stored result is null whenever sqlStep is
\* IDLE or PARSING (the rerun from ANSWERING and the PARSING transition both
\* clear it).
C22_SqlResultCleared ==
   app.sqlStep \in {"IDLE", "PARSING"} => app.sqlResult = Null

\* sequence a is a prefix of sequence b
IsPrefix(a, b) == Len(a) <= Len(b) /\ SubSeq(b, 1, Len(a)) = a

\* the step begins a stage transition of the agentic pipeline
AgentTransitionBegins ==
   /\ lastEvent'.run # NoRun
   /\ lastEvent'.run.handler = "agent"
   /\ lastEvent'.began # "none"

\* C23: every stage transition of the agentic pipeline leaves the previous
\* thought trace as a strict prefix of the new one.
C23_TraceAppendOnly ==
   [][ AgentTransitionBegins =>
          /\ IsPrefix(app.thoughts, app'.thoughts)
          /\ Len(app.thoughts) < Len(app'.thoughts)
     ]_vars

\* C24: an advance accepted at SYNTHESIZING (a fresh run) does not reset the
\* thought trace: the entries it held are still there afterwards.
C24_RerunKeepsTrace ==
   [][ (/\ lastEvent'.kind = "advance" /\ lastEvent'.accepted
        /\ lastEvent'.run.handler = "agent"
        /\ lastEvent'.run.from = "SYNTHESIZING")
       => IsPrefix(app.thoughts, app'.thoughts)
     ]_vars

\* the invocations suspended inside a stage transition function (at its
\* collaborator call or its pacing delay)
InTransition == {i \in 1..Len(runs) : runs[i].pc \in {"collab", "transDelay"}}

\* C25: isProcessing is true in exactly the states in which one stage
\* transition function is executing.
C25_IsProcessingExact == app.isProcessing <=> Cardinality(InTransition) = 1

\* the invocations made with auto = true that are in progress
AutoRuns == {i \in 1..Len(runs) : runs[i].auto}

\* C26: isAutoMode is true in exactly the states in which an invocation made
\* with auto = true is in progress.
C26_IsAutoModeExact == app.isAutoMode <=> AutoRuns # {}

(***************************************************************************)
(* What the transitions pass on (Spec).                                    *)
(***************************************************************************)
\* the RETRIEVING transition of an automatic invocation of handleStep made at
\* IDLE has just run, no reset or mode switch having interfered
AutoRetrieved ==
   /\ Retrieved
   /\ lastEvent.clean
   /\ LastRun.handler = "rag" /\ LastRun.auto /\ LastRun.from = "IDLE"

\* C27: in an automatic run started from IDLE the RETRIEVING transition
\* passes the scorer the chunks the CHUNKING transition of the same run
\* produced, and stores min(topK, |chunks|) >= 1 retrieved chunks.
C27_ScoresCurrentChunks ==
   (AutoRetrieved /\ Len(app.chunks) > 0) =>
      /\ Ids(lastEvent.ctx[1]) = Ids(app.chunks)
      /\ Len(app.retrievedChunks) = Min(topK, Len(app.chunks))
      /\ Len(app.retrievedChunks) >= 1

\* the GENERATING or SYNTHESIZING transition has just called askWithContext
\* with the context lastEvent.ctx[1], no reset or mode switch having interfered
AnswerRequested ==
   /\ lastEvent.began \in {"GENERATING", "SYNTHESIZING"}
   /\ lastEvent.clean

\* C28: the context passed to askWithContext on entering GENERATING or
\* SYNTHESIZING is the retrieved subset stored by the RETRIEVING or
\* TOOL_EXECUTION transition before it.
C28_ContextIsRetrieved ==
   AnswerRequested => lastEvent.ctx[1] = app.retrievedChunks

(***************************************************************************)
(* Termination.                                                            *)
(***************************************************************************)
\* one invocation made with auto = true is in flight and no reset or mode
\* switch has interfered with it
AutoInFlight == Len(runs) = 1 /\ ~tainted /\ runs[1].auto

\* the last step ended an invocation made with auto = true
AutoEnded == RunEnded /\ LastRun.auto

\* the step cell of the handler of the last run is at the terminal step
AtTerminal == StepOf(app, LastRun.handler) = Terminal(LastRun.handler)

\* C29 (FairSpec): an automatic invocation, from whatever step it starts,
\* ends (timers firing and collaborator calls settling) unless a reset or
\* mode switch intervenes; if no stage failed it ends with the step at the
\* terminal step of its mode and not before.
C29_AutoRunsToTerminal ==
   /\ [](AutoEnded /\ lastEvent.clean /\ LastRun.pc = "done" => AtTerminal)
   /\ (AutoInFlight ~> (tainted \/ (AutoEnded /\ (LastRun.pc = "failed" \/ AtTerminal))))

\* an automatic invocation made after a manual step has ended at the terminal
\* step
C29_Witness ==
   /\ AutoEnded /\ lastEvent.clean /\ LastRun.pc = "done"
   /\ LastRun.from \notin {"IDLE", Terminal(LastRun.handler)}
   /\ LastRun.n > 1
   /\ AtTerminal

\* chunk sizes and overlaps, among them the code's own and some with
\* chunkSize <= overlap
ChunkSettings ==
   {<<chunkSize, overlap>>, <<8, 2>>, <<50, 50>>, <<20, 300>>, <<0, 0>>, <<100, 90>>}

\* the chunks generateChunksLocally has generated after k passes over the
\* text "long" (every window of it is kept whole)
GeneratedAfter(k) ==
   [j \in 1..k |->
      [id |-> ToString(j),
       text |-> [doc |-> "long",
                 from |-> (j - 1) * Stride(chunkSize, overlap) + 1,
                 to |-> (j - 1) * Stride(chunkSize, overlap) + chunkSize],
       state |-> "pending",
       metadata |-> <<"long.txt", "Segment", ToString(j)>>]]

\* the loop of generateChunksLocally over the text "long", resumed after k
\* passes
ResumedAfter(k) ==
   ChunkLoop("long", "long.txt", k * Stride(chunkSize, overlap), GeneratedAfter(k))

\* C30 (ProbeSpec): the chunker terminates with at most maxChunks chunks: the
\* stride is at least minStride for every chunk size and overlap
\* (chunkSize <= overlap included), the windows it emits start at multiples
\* of the stride inside the content, and on a text of 101 windows the loop
\* stops at the 100th chunk.
C30_ChunkerTerminates ==
   Chunked =>
      /\ Len(app.chunks) <= maxChunks
      /\ \A s \in ChunkSettings : Stride(s[1], s[2]) >= minStride
      /\ Cardinality(WindowStarts(ChunkedContent, 0, 0)) = Len(app.chunks)
      /\ \A i \in WindowStarts(ChunkedContent, 0, 0) :
            /\ i % Stride(chunkSize, overlap) = 0
            /\ i < Len(DocText(ChunkedContent))
      /\ \A k \in (maxChunks - 4)..(maxChunks - 1) :
            ResumedAfter(k) = GeneratedAfter(maxChunks)

\* nine chunks from nine windows 200 characters apart
C30_Witness ==
   /\ Chunked
   /\ Len(app.chunks) > topK
   /\ WindowStarts(ChunkedContent, 0, 0)
         = {(j - 1) * Stride(chunkSize, overlap) : j \in 1..Len(app.chunks)}
   /\ Len(DocText("long")) > maxChunks * Stride(chunkSize, overlap)
   /\ Len(ResumedAfter(maxChunks - 1)) = maxChunks

(***************************************************************************)
(* Chunk lifecycle and frame conditions.                                   *)
(***************************************************************************)
\* some chunk of the chunk list is 'pending'
SomePending == \E i \in 1..Len(app.chunks) : app.chunks[i].state = "pending"

\* C31 (Spec): all chunks are 'pending' when the CHUNKING transition has run,
\* and in every reachable state where ragStep is EMBEDDING, STORING,
\* RETRIEVING or GENERATING no chunk of the chunk list is 'pending'.
C31_ChunkLifecycle ==
   /\ Chunked => \A i \in 1..Len(app.chunks) : app.chunks[i].state = "pending"
   /\ app.ragStep \in {"EMBEDDING", "STORING", "RETRIEVING", "GENERATING"}
         => ~SomePending

\* the stages of the document pipeline whose transition only paces
PacingStages == {"UPLOADING", "STORING"}

\* the cells the handler writes on entry, before its first transition
EntryWrites(s, t) ==
   [s EXCEPT !.processingRef = t.processingRef, !.isAutoMode = t.isAutoMode]

\* C32 (Spec): a step in which transitionTo(UPLOADING) or transitionTo(STORING)
\* begins writes ragStep and isProcessing only (the handler's own entry
\* writes aside, when the step is the accepted advance): the chunk list, the
\* retrieved subset, the answer, the query and every other cell are left as
\* they were; the step in which that transition ends writes isProcessing only.
C32_PacingStagesFrame ==
   [][ /\ (lastEvent'.began \in PacingStages)
          => /\ app'.ragStep = lastEvent'.began /\ app'.isProcessing
             /\ LET pre == IF lastEvent'.kind = "advance" THEN EntryWrites(app, app')
                                                        ELSE app
                IN  app' = [pre EXCEPT !.ragStep = app'.ragStep, !.isProcessing = TRUE]
       /\ (\E i \in 1..Len(runs) :
              /\ runs[i].pc = "transDelay" /\ runs[i].handler = "rag"
              /\ runs[i].next \in PacingStages
              /\ lastEvent'.kind = "timer" /\ lastEvent'.run = [runs[i] EXCEPT !.current = runs[i].next, !.pc = "yield"])
          => app' = [app EXCEPT !.isProcessing = FALSE]
     ]_vars

\* transitionTo(UPLOADING) has begun on a rerun with the earlier answer and
\* chunk list still there, or transitionTo(STORING) with processed chunks
C32_Witness ==
   /\ lastEvent.began \in PacingStages
   /\ app.ragStep = lastEvent.began
   /\ app.chunks # <<>>
   /\ lastEvent.began = "UPLOADING" => (app.answer # "" /\ app.retrievedChunks # <<>>)
   /\ lastEvent.began = "STORING" => app.query # <<>>

(***************************************************************************)
(* Retrieval inside the agentic TOOL_EXECUTION transition.                 *)
(***************************************************************************)
\* the chunks of cs as id and text, whatever their state, score and label
Bare(cs) == {[id |-> cs[i].id, text |-> cs[i].text] : i \in 1..Len(cs)}

\* the TOOL_EXECUTION transition has just run in an invocation whose closure
\* held no chunk set, no reset or mode switch having interfered
ToolExecutedFresh ==
   /\ lastEvent.began = "TOOL_EXECUTION"
   /\ lastEvent.clean
   /\ Len(LastRun.c.chunks) = 0

\* C33 (Spec): when TOOL_EXECUTION runs with no existing chunk set, the chunk
\* set it stores is the one it retrieved over, generated from the active
\* document (the sample only if no document was supplied), and every chunk
\* of the retrieved subset is a member of the chunk list.
C33_ToolChunksFromActiveDocument ==
   ToolExecutedFresh =>
      /\ Bare(app.chunks) = Bare(lastEvent.ctx[1])
      /\ Bare(app.chunks) =
            Bare(generateChunksLocally(ContentOr(LastRun.c.fileContent, "SAMPLE_DOC"),
                                       "System_Auto.pdf"))
      /\ Bare(app.retrievedChunks) \subseteq Bare(app.chunks)

(***************************************************************************)
(* The answer while it is being generated.                                 *)
(***************************************************************************)
\* the invocations of handleStep suspended in gemini.askWithContext
AwaitingAnswer ==
   {i \in 1..Len(runs) : runs[i].handler = "rag" /\ runs[i].pc = "collab"}

\* C34 (Spec): while ragStep is GENERATING and the call of askWithContext made
\* on entering GENERATING has not returned, the answer is the empty string
\* (on a first run and on a rerun alike).
C34_AnswerEmptyWhileGenerating ==
   (app.ragStep = "GENERATING" /\ AwaitingAnswer # {}) => app.answer = ""

(***************************************************************************)
(* The question passed to the scorer and to the collaborator.              *)
(***************************************************************************)
\* the stages whose transition passes the question on: to performRetrieval
\* (RETRIEVING, TOOL_EXECUTION), to askWithContext (GENERATING, SYNTHESIZING)
\* and to textToSql (GENERATING_SQL)
QueryStages ==
   {"RETRIEVING", "GENERATING", "TOOL_EXECUTION", "SYNTHESIZING", "GENERATING_SQL"}

\* the fallback question of handler h
DefaultQuery(h) ==
   CASE h = "rag" -> DefaultRagQuery
     [] h = "agent" -> DefaultAgentQuery
     [] h = "sql" -> DefaultSqlQuery

\* q holds a character that is not white space
HasText(q) == \E k \in 1..Len(q) : ~IsSpace(q[k])

\* C35 (Spec): every question a stage passes to the scorer or to the
\* collaborator holds text: it is the question typed when that holds text,
\* and its mode's default question when the question typed is empty or white
\* space only.
C35_QueryNeverEmpty ==
   lastEvent.began \in QueryStages =>
      /\ Len(lastEvent.arg) = 1
      /\ HasText(lastEvent.arg[1])
      /\ ~HasText(LastRun.c.query) => lastEvent.arg[1] = DefaultQuery(LastRun.handler)
      /\ HasText(LastRun.c.query) => lastEvent.arg[1] = trim(LastRun.c.query)

\* a stage outside the document pipeline has passed on its default question
\* in place of a question of white space only
C35_Witness ==
   /\ lastEvent.began \in {"TOOL_EXECUTION", "SYNTHESIZING", "GENERATING_SQL"}
   /\ LastRun.c.query = <<" ">>
   /\ lastEvent.arg = <<DefaultQuery(LastRun.handler)>>

(***************************************************************************)
(* Reset.                                                                  *)
(***************************************************************************)
\* the last step was the reset button or a mode button (setMode; resetAll)
JustReset == lastEvent.kind \in {"reset", "mode"}

\* C36 (Spec): immediately after resetAll, run by the reset button or by a
\* mode switch, the three steps are IDLE, the chunk list, the retrieved
\* subset and the thought trace are empty, the answer and the query are
\* empty, the SQL result is null, and the busy flag (processingRef),
\* isAutoMode and isProcessing are false.
C36_ResetToInitialValues ==
   JustReset =>
      /\ app.ragStep = "IDLE" /\ app.agentStep = "IDLE" /\ app.sqlStep = "IDLE"
      /\ app.chunks = <<>> /\ app.retrievedChunks = <<>> /\ app.thoughts = <<>>
      /\ app.answer = "" /\ app.query = <<>>
      /\ app.sqlResult = Null /\ app.sqlResultRef = Null
      /\ ~app.processingRef /\ ~app.isAutoMode /\ ~app.isProcessing
      /\ app = [InitApp EXCEPT !.mode = app.mode]

\* a reset or a mode switch has hit an automatic invocation that had typed
\* a question and was waiting for the collaborator
C36_Witness ==
   /\ JustReset
   /\ app = [InitApp EXCEPT !.mode = app.mode]
   /\ \E i \in 1..Len(runs) :
         runs[i].auto /\ runs[i].pc = "collab" /\ runs[i].c.query # <<>>

(***************************************************************************)
(* The chunk list after CHUNKING.                                          *)
(***************************************************************************)
\* C37 (Spec): after the CHUNKING transition the chunk list holds at least
\* one chunk and at most maxChunks, and when the invocation saw no document
\* content the chunks are those of the built-in sample document.
C37_ChunkListNonEmpty ==
   Chunked =>
      /\ Len(app.chunks) >= 1
      /\ Len(app.chunks) <= maxChunks
      /\ LastRun.c.fileContent = NoContent
            => Bare(app.chunks) = Bare(generateChunksLocally("SAMPLE_DOC", "Visualizer_Demo.pdf"))

\* C38 (Spec): in the document pipeline, whenever the retrieved subset is
\* non-empty (no reset or mode switch having hit an invocation in flight),
\* each of its chunks is in the chunk list by id with state 'retrieved', and
\* no chunk outside the retrieved subset has state 'retrieved'; reruns
\* from GENERATING included.
C38_RetrievedSubsetMarked ==
   (app.retrievedChunks # <<>> /\ ~tainted /\ app.mode = "DOCUMENT_RAG") =>
      /\ \A t \in 1..Len(app.retrievedChunks) :
            \E i \in 1..Len(app.chunks) :
               /\ app.chunks[i].id = app.retrievedChunks[t].id
               /\ app.chunks[i].state = "retrieved"
      /\ \A i \in 1..Len(app.chunks) :
            app.chunks[i].state = "retrieved" => InRetrieved(app.chunks[i])

(***************************************************************************)
(* Steps and the selected mode.                                            *)
(***************************************************************************)
\* C39 (Spec): in every reachable state only the step of the selected mode
\* can differ from IDLE (so at most one of ragStep, agentStep and sqlStep
\* does), whatever advance, reset and mode-switch commands meet invocations
\* in flight.
C39_OnlyCurrentModeActive ==
   /\ \A h \in Handlers : StepOf(app, h) # "IDLE" => h = ModeHandler(app.mode)
   /\ Cardinality({h \in Handlers : StepOf(app, h) # "IDLE"}) <= 1

(***************************************************************************)
(* The single-flight guard.                                                *)
(***************************************************************************)
\* C40 (Spec): an advance issued while the busy flag (processingRef) is set
\* is dropped and leaves every variable of the component as it was: no cell
\* is written (isAutoMode stays set during an automatic run), no invocation
\* is added, and the invocations in flight are as before, so the automatic
\* loop goes on.
C40_DroppedAdvanceChangesNothing ==
   [][ (lastEvent'.kind = "advance" /\ cmds' # cmds /\ app.processingRef)
       => /\ ~lastEvent'.accepted
          /\ app' = app
          /\ runs' = runs
          /\ reader' = reader
          /\ app'.isAutoMode = app.isAutoMode
          /\ AutoRuns # {} => (\A i \in AutoRuns : runs'[i] = runs[i])
     ]_vars

\* an advance was dropped during an automatic run that is past its first
\* stage: isAutoMode is still set and the run is still in flight
C40_Witness ==
   /\ lastEvent.kind = "advance"
   /\ ~lastEvent.accepted
   /\ app.isAutoMode /\ app.processingRef
   /\ Len(runs) = 1 /\ runs[1].auto /\ runs[1].n >= 2
   /\ runs[1].pc \in {"transDelay", "yield", "collab"}

====
